---- MODULE Spec2Model ----
(***************************************************************************)
(* Request signing of the Backpack connector (BackpackAuth) and the        *)
(* symbol filter of backpack_utils.                                        *)
(*                                                                         *)
(* Python values are modelled as follows.                                  *)
(*   - a str used as a parameter key or value: a sequence of one-character *)
(*     strings, so that sorting and urlencode work character by character; *)
(*   - text that is only concatenated (the signed message, header names    *)
(*     and values, URL pieces): a TLA+ string;                             *)
(*   - an int or str value: a record [t, n, s] (t = "int" uses n, t =      *)
(*     "str" uses s);                                                      *)
(*   - a dict: the sequence of its <<key, value>> items in insertion       *)
(*     order; an Optional dict: [none, items];                             *)
(*   - an epoch-millisecond integer (too wide for TLC's integers): the     *)
(*     record [hi, lo] standing for hi * 1000 + lo, 0 <= lo < 1000.        *)
(* Signatures are symbolic terms: the model keeps the algorithm, key,      *)
(* message and text encoding, not the bytes.                               *)
(***************************************************************************)
EXTENDS Integers, Sequences, FiniteSets, TLC

VARIABLES auth, clock, ticks, request, pre, out, canon, sym

vars == <<auth, clock, ticks, request, pre, out, canon, sym>>

-----------------------------------------------------------------------------
(* Bounds of the model *)

MaxTicks == 2

MaxRuns == 3

MaxItems == 2

MaxSets == 2

-----------------------------------------------------------------------------
(* Python values *)

PyInt(i) == [t |-> "int", n |-> i, s |-> <<>>]

PyStr(cs) == [t |-> "str", n |-> 0, s |-> cs]

HInt(i) == [t |-> "int", n |-> i, s |-> ""]

HStr(str) == [t |-> "str", n |-> 0, s |-> str]

NoneDict == [none |-> TRUE, items |-> <<>>]

Dict(items) == [none |-> FALSE, items |-> items]

Range(f) == {f[i] : i \in DOMAIN f}

Keys(items) == {items[i][1] : i \in DOMAIN items}

HasKey(items, k) == \E i \in DOMAIN items : items[i][1] = k

Get(items, k) == items[CHOOSE i \in DOMAIN items : items[i][1] = k][2]

\* "x or {}" : None and the empty dict are falsy
Truthy(d) == ~d.none /\ Len(d.items) > 0

-----------------------------------------------------------------------------
(* str ordering and urlencode *)

\* the characters the model's strings use, in code point order
AsciiOrder ==
    << " ", "&", "+", "-", ".", "/",
       "0", "1", "2", "3", "4", "5", "6", "7", "8", "9", "=",
       "A", "B", "C", "D", "E", "F", "G", "H", "I", "J", "K", "L", "M",
       "N", "O", "P", "Q", "R", "S", "T", "U", "V", "W", "X", "Y", "Z", "_",
       "a", "b", "c", "d", "e", "f", "g", "h", "i", "j", "k", "l", "m",
       "n", "o", "p", "q", "r", "s", "t", "u", "v", "w", "x", "y", "z", "~" >>

Ord == [c \in Range(AsciiOrder) |->
          CHOOSE i \in DOMAIN AsciiOrder : AsciiOrder[i] = c]

\* Python's str "<" : lexicographic by code point
RECURSIVE StrLess(_, _)
StrLess(a, b) ==
    IF b = <<>> THEN FALSE
    ELSE IF a = <<>> THEN TRUE
    ELSE IF Head(a) = Head(b) THEN StrLess(Tail(a), Tail(b))
    ELSE Ord[Head(a)] < Ord[Head(b)]

\* quote_plus on one character: unreserved characters pass, space -> "+",
\* anything else -> %XX
QuoteChar(c) ==
    CASE c = " " -> "+"
      [] c = "&" -> "%26"
      [] c = "+" -> "%2B"
      [] c = "/" -> "%2F"
      [] c = "=" -> "%3D"
      [] OTHER   -> c

RECURSIVE QuotePlus(_)
QuotePlus(cs) ==
    IF cs = <<>> THEN "" ELSE QuoteChar(Head(cs)) \o QuotePlus(Tail(cs))

\* quote_plus(str(v)) for an int or str value
QuoteValue(v) == IF v.t = "int" THEN ToString(v.n) ELSE QuotePlus(v.s)

RECURSIVE urlencode(_)
urlencode(items) ==
    IF items = <<>> THEN ""
    ELSE LET pair == QuotePlus(Head(items)[1]) \o "=" \o QuoteValue(Head(items)[2])
         IN  IF Len(items) = 1 THEN pair
             ELSE pair \o "&" \o urlencode(Tail(items))

-----------------------------------------------------------------------------
(* dict.update and sorted *)

SetItem(items, k, v) ==
    IF HasKey(items, k)
    THEN [i \in DOMAIN items |-> IF items[i][1] = k THEN <<k, v>> ELSE items[i]]
    ELSE Append(items, <<k, v>>)

RECURSIVE DictUpdate(_, _)
DictUpdate(items, other) ==
    IF other = <<>> THEN items
    ELSE DictUpdate(SetItem(items, Head(other)[1], Head(other)[2]), Tail(other))

RECURSIVE InsertSorted(_, _)
InsertSorted(sorted, item) ==
    IF sorted = <<>> THEN <<item>>
    ELSE IF StrLess(item[1], Head(sorted)[1]) THEN <<item>> \o sorted
    ELSE <<Head(sorted)>> \o InsertSorted(Tail(sorted), item)

\* sorted(params.items(), key=lambda x: x[0]) : stable, ascending by key
RECURSIVE SortedItems(_)
SortedItems(items) ==
    IF items = <<>> THEN <<>>
    ELSE InsertSorted(SortedItems(SubSeq(items, 1, Len(items) - 1)),
                      items[Len(items)])

get_sorted_params_Unsorted(params, data) ==
    LET body   == IF Truthy(data) THEN data.items ELSE <<>>
        merged == DictUpdate(IF Truthy(params) THEN params.items ELSE <<>>, body)
    IN  [result |-> merged,
         params |-> IF Truthy(params) THEN Dict(merged) ELSE params]

\* _get_sorted_params: the canonical dict it returns, and request.params as
\* the call leaves it (a truthy request.params is updated in place)
get_sorted_params(params, data) ==
    LET body   == IF Truthy(data) THEN data.items ELSE <<>>
        merged == DictUpdate(IF Truthy(params) THEN params.items ELSE <<>>, body)
    IN  [result |-> SortedItems(merged),
         params |-> IF Truthy(params) THEN Dict(merged) ELSE params]

-----------------------------------------------------------------------------
(* Constants of backpack_constants and the instruction table *)

REST_URL == <<"https", "://", "api.backpack.exchange">>

API_PREFIX_V1 == "/api/v1"

W_API_PREFIX_V1 == "/wapi/v1"

DEFAULT_WINDOW == 5000

SEED_LEN == 32

RESTMethod == {"GET", "POST", "PUT", "DELETE"}

instruction_mapping ==
    (<<"GET", API_PREFIX_V1 \o "/capital">> :> "balanceQuery") @@
    (<<"GET", W_API_PREFIX_V1 \o "/capital/deposit/address">> :> "depositAddressQuery") @@
    (<<"GET", W_API_PREFIX_V1 \o "/capital/deposits">> :> "depositQueryAll") @@
    (<<"GET", W_API_PREFIX_V1 \o "/history/fills">> :> "fillHistoryQueryAll") @@
    (<<"DELETE", API_PREFIX_V1 \o "/order">> :> "orderCancel") @@
    (<<"DELETE", API_PREFIX_V1 \o "/orders">> :> "orderCancelAll") @@
    (<<"POST", API_PREFIX_V1 \o "/order">> :> "orderExecute") @@
    (<<"GET", W_API_PREFIX_V1 \o "/history/orders">> :> "orderHistoryQueryAll") @@
    (<<"GET", API_PREFIX_V1 \o "/order">> :> "orderQuery") @@
    (<<"GET", API_PREFIX_V1 \o "/orders">> :> "orderQueryAll") @@
    (<<"POST", W_API_PREFIX_V1 \o "/capital/withdrawals">> :> "withdraw") @@
    (<<"GET", W_API_PREFIX_V1 \o "/capital/withdrawals">> :> "orderTest")

-----------------------------------------------------------------------------
(* URLs: a URL is None or a sequence of lexical pieces, the delimiters    *)
(* "://", "?" and "#" being pieces of their own                            *)

NoUrl == [none |-> TRUE, parts |-> <<>>]

Url(parts) == [none |-> FALSE, parts |-> parts]

RECURSIVE PathPieces(_)
PathPieces(parts) ==
    IF parts = <<>> \/ Head(parts) \in {"?", "#"} THEN ""
    ELSE Head(parts) \o PathPieces(Tail(parts))

\* urlparse(url).path: what follows the scheme and the network location, up
\* to the query or the fragment; urlparse(None) has an empty path
urlparse_path(url) ==
    IF url.none THEN ""
    ELSE LET parts == url.parts
             rest  == IF Len(parts) >= 2 /\ parts[2] = "://"
                      THEN SubSeq(parts, 4, Len(parts)) ELSE parts
         IN  PathPieces(rest)

get_instruction_AnyMethod(method, url) ==
    LET path == urlparse_path(url)
    IN  IF \E k \in DOMAIN instruction_mapping : k[2] = path
        THEN instruction_mapping[CHOOSE k \in DOMAIN instruction_mapping : k[2] = path]
        ELSE ""

\* _get_instruction: instruction_mapping.get((method, path), "")
get_instruction(method, url) ==
    LET request_key == <<method, urlparse_path(url)>>
    IN  IF request_key \in DOMAIN instruction_mapping
        THEN instruction_mapping[request_key]
        ELSE ""

-----------------------------------------------------------------------------
(* The time source and wide integers *)

TickMicros == 1500

\* the time source after `us` more microseconds
AddMicros(t, us) ==
    [sec |-> t.sec + (t.us + us) \div 1000000,
     us  |-> (t.us + us) % 1000000]

\* the value of the k-th read of time_provider.time() during one call, the
\* source moving on by src.drift microseconds between two reads
TimeRead(src, k) == AddMicros(src.now, (k - 1) * src.drift)

\* int(t * 1e3): epoch milliseconds, truncated
Millis(t) == [hi |-> t.sec, lo |-> t.us \div 1000]

\* str() of the wide integer hi * 1000 + lo
WideStr(w) ==
    IF w.hi = 0 THEN ToString(w.lo)
    ELSE ToString(w.hi) \o (IF w.lo < 10 THEN "00" ELSE IF w.lo < 100 THEN "0" ELSE "")
                        \o ToString(w.lo)

\* str() / f-string formatting of an int or str value
Fmt(v) == IF v.t = "int" THEN ToString(v.n) ELSE v.s

-----------------------------------------------------------------------------
(* Construction: base64.b64decode(secret_key) and                          *)
(* Ed25519PrivateKey.from_private_bytes                                    *)
(*                                                                         *)
(* A secret string is a sequence of runs <<class, count>> of characters of *)
(* one class: "d" a character of the base64 alphabet, "p" the pad "=",     *)
(* "x" an ASCII character outside the alphabet, "u" a non-ASCII character. *)

\* binascii.a2b_base64 in its default, non-strict mode, its character loop
\* taken one run at a time: characters outside the alphabet are skipped; an
\* alphabet character clears the pad count, moves on in its quad and, unless
\* it opens the quad, completes a byte; a pad counts only once two characters
\* of the quad are in, and the pad that completes the quad ends the decoding
RECURSIVE a2b_base64(_, _, _, _)
a2b_base64(runs, quad_pos, pads, nbytes) ==
    IF runs = <<>>
    THEN IF quad_pos # 0 THEN [ok |-> FALSE, len |-> 0]
         ELSE [ok |-> TRUE, len |-> nbytes]
    ELSE LET cls == Head(runs)[1]
             n   == Head(runs)[2]
         IN  IF cls = "p"
             THEN IF quad_pos >= 2 /\ quad_pos + pads + n >= 4
                  THEN [ok |-> TRUE, len |-> nbytes]
                  ELSE a2b_base64(Tail(runs), quad_pos,
                                  IF quad_pos >= 2 THEN pads + n ELSE pads, nbytes)
             ELSE IF cls # "d"
             THEN a2b_base64(Tail(runs), quad_pos, pads, nbytes)
             ELSE a2b_base64(Tail(runs), (quad_pos + n) % 4, 0,
                             nbytes + Cardinality({j \in 1 .. n :
                                                     (quad_pos + j - 1) % 4 # 0}))

\* base64.b64decode(s) of a str: non-ASCII text is refused, then a2b_base64
b64decode(secret) ==
    IF \E i \in DOMAIN secret : secret[i][1] = "u" THEN [ok |-> FALSE, len |-> 0]
    ELSE a2b_base64(secret, 0, 0, 0)

NoKey == [bytes |-> 0, seed |-> <<>>]

NoAuth == [status |-> "none", api_key |-> "", secret |-> <<>>, key |-> NoKey]

BackpackAuth_init_AnyLength(api_key, secret_key) ==
    LET raw == b64decode(secret_key)
    IN  IF raw.ok
        THEN [status |-> "ok", api_key |-> api_key, secret |-> secret_key,
              key |-> [bytes |-> raw.len, seed |-> secret_key]]
        ELSE [status |-> "error", api_key |-> "", secret |-> secret_key, key |-> NoKey]

\* BackpackAuth.__init__: the object, or the error that leaves no object
BackpackAuth_init(api_key, secret_key) ==
    LET raw == b64decode(secret_key)
    IN  IF raw.ok /\ raw.len = SEED_LEN
        THEN [status |-> "ok", api_key |-> api_key, secret |-> secret_key,
              key |-> [bytes |-> raw.len, seed |-> secret_key]]
        ELSE [status |-> "error", api_key |-> "", secret |-> secret_key, key |-> NoKey]

-----------------------------------------------------------------------------
(* Signing *)

Ed25519_sign(key, message) == [alg |-> "Ed25519", key |-> key, msg |-> message]

b64encode(sig) == [enc |-> "base64", sig |-> sig]

NoSignature == [enc |-> "", sig |-> [alg |-> "", key |-> NoKey, msg |-> ""]]

NoHeaders == [kind |-> "none", items |-> <<>>]

Headers(kind, items) == [kind |-> kind, items |-> items]

ComposeMessage_InstructionLast(instruction, params, timestamp, window) ==
    LET m1 == "timestamp=" \o WideStr(timestamp) \o "&window=" \o Fmt(window)
        m2 == IF instruction # "" THEN "instruction=" \o instruction \o "&" \o m1 ELSE m1
        m3 == IF params # <<>> THEN urlencode(params) \o "&" \o m2 ELSE m2
    IN  m3

\* the message of _sign_payload: the timestamp/window clause, the parameters
\* put in front of it, the instruction put in front of that
ComposeMessage(instruction, params, timestamp, window) ==
    LET m1 == "timestamp=" \o WideStr(timestamp) \o "&window=" \o Fmt(window)
        m2 == IF params # <<>> THEN urlencode(params) \o "&" \o m1 ELSE m1
        m3 == IF instruction # "" THEN "instruction=" \o instruction \o "&" \o m2 ELSE m2
    IN  m3

\* request.headers.get("X-Window", 5000) if type(request.headers) is dict else 5000
WindowOf(headers) ==
    IF headers.kind = "dict" /\ HasKey(headers.items, "X-Window")
    THEN Get(headers.items, "X-Window")
    ELSE HInt(DEFAULT_WINDOW)

\* _sign_payload: the tuple it returns, with the values it computed on the
\* way and request.params as it leaves it
sign_payload(a, req, src) ==
    LET instruction == get_instruction(req.method, req.url)
        sorted      == get_sorted_params(req.params, req.data)
        timestamp   == Millis(TimeRead(src, 1))
        window      == WindowOf(req.headers)
        message     == ComposeMessage(instruction, sorted.result, timestamp, window)
    IN  [signature   |-> b64encode(Ed25519_sign(a.key, message)),
         timestamp   |-> timestamp,
         window      |-> window,
         message     |-> message,
         instruction |-> instruction,
         params      |-> sorted.result,
         req_params  |-> sorted.params,
         reads       |-> 1]

get_auth_headers_Reread(a, req, src) ==
    LET signed == sign_payload(a, req, src)
    IN  << <<"X-Timestamp", HStr(WideStr(Millis(TimeRead(src, 2))))>>,
           <<"X-Window",    HStr(Fmt(signed.window))>>,
           <<"X-API-Key",   HStr(a.api_key)>>,
           <<"X-Signature", signed.signature>> >>

\* _get_auth_headers: the four headers, in the order the dict literal has
get_auth_headers(a, req, src) ==
    LET signed == sign_payload(a, req, src)
    IN  << <<"X-Timestamp", HStr(WideStr(signed.timestamp))>>,
           <<"X-Window",    HStr(Fmt(signed.window))>>,
           <<"X-API-Key",   HStr(a.api_key)>>,
           <<"X-Signature", signed.signature>> >>

MergeHeaders_CallerWins(caller, authed) ==
    DictUpdate(DictUpdate(<<>>, authed), caller.items)

\* headers = {}; headers.update(request.headers); headers.update(auth headers)
MergeHeaders(caller, authed) ==
    DictUpdate(DictUpdate(<<>>, caller.items), authed)

\* rest_authenticate: the request as the call leaves it
rest_authenticate(a, req, src) ==
    [method  |-> req.method,
     url     |-> req.url,
     params  |-> sign_payload(a, req, src).req_params,
     data    |-> req.data,
     headers |-> Headers("dict", MergeHeaders(req.headers, get_auth_headers(a, req, src)))]

-----------------------------------------------------------------------------
(* is_symbol_information_valid of backpack_utils *)

\* the body of the function is "return True": the checks are commented out
is_symbol_information_valid(symbol_info) == TRUE

-----------------------------------------------------------------------------
(* Inputs *)

ApiKeys == {"testApiKey"}

\* "testSecret", the secret of test_backpack_auth.py: ten alphabet characters
TestSecret == << <<"d", 10>> >>

\* base64 of a 32-byte seed: 43 alphabet characters and one pad
ValidSeed == << <<"d", 43>>, <<"p", 1>> >>

MainSecrets == {ValidSeed, TestSecret}

RunCounts == {1, 2, 42, 43}

RunClasses == {"d", "p", "x"}

SecretsOfLen(n) == [1 .. n -> RunClasses \X RunCounts]

\* every secret of at most MaxRuns runs, the test's secret and a non-ASCII one
CtorSecrets ==
    UNION {SecretsOfLen(n) : n \in 0 .. MaxRuns}
      \cup {TestSecret, << <<"d", 43>>, <<"u", 1>>, <<"p", 1>> >>}

\* the parameters of test_rest_authenticate
TestParams ==
    << << <<"p","r","i","c","e">>,             PyStr(<<"0",".","1">>) >>,
       << <<"q","u","a","n","t","i","t","y">>, PyInt(1) >>,
       << <<"s","i","d","e">>,                 PyStr(<<"B","U","Y">>) >>,
       << <<"s","y","m","b","o","l">>,         PyStr(<<"L","T","C","B","T","C">>) >>,
       << <<"t","i","m","e","I","n","F","o","r","c","e">>, PyStr(<<"G","T","C">>) >>,
       << <<"t","y","p","e">>,                 PyStr(<<"L","I","M","I","T">>) >> >>

QuerySymbolSide ==
    << << <<"s","y","m","b","o","l">>, PyStr(<<"S","O","L","_","U","S","D","C">>) >>,
       << <<"s","i","d","e">>,         PyStr(<<"B","i","d">>) >> >>

BodySideType ==
    << << <<"s","i","d","e">>, PyStr(<<"A","s","k">>) >>,
       << <<"o","r","d","e","r","T","y","p","e">>, PyStr(<<"L","i","m","i","t">>) >> >>

BodyEscaped ==
    << << <<"n","o","t","e">>, PyStr(<<"a"," ","b","&","c","=","d">>) >>,
       << <<"I","d">>,         PyInt(7) >> >>

\* the (params, data) pairs the requests of the main specification carry
ParamCases ==
    { [params |-> NoneDict,              data |-> NoneDict],
      [params |-> Dict(<<>>),            data |-> Dict(<<>>)],
      [params |-> Dict(TestParams),      data |-> NoneDict],
      [params |-> Dict(QuerySymbolSide), data |-> Dict(BodySideType)],
      [params |-> NoneDict,              data |-> Dict(BodyEscaped)],
      [params |-> Dict(<<>>),            data |-> Dict(BodySideType)] }

Paths ==
    { API_PREFIX_V1 \o "/capital", API_PREFIX_V1 \o "/orders",
      W_API_PREFIX_V1 \o "/capital/withdrawals", API_PREFIX_V1 \o "/ticker" }

Queries == {"", "symbol=SOL_USDC"}

\* private_rest_url(path) with an optional query string
MkUrl(path, query) ==
    Url(REST_URL \o <<path>> \o (IF query = "" THEN <<>> ELSE <<"?", query>>))

UrlCases == {NoUrl} \cup {MkUrl(p, q) : p \in Paths, q \in Queries}

WindowHeaderCases ==
    { <<>>, << <<"X-Window", HStr("10000")>> >>, << <<"X-Window", HInt(60000)>> >> }

OtherHeaderCases ==
    { <<>>,
      << <<"Content-Type", HStr("application/json")>> >>,
      << <<"X-API-Key", HStr("staleKey")>>, <<"Content-Type", HStr("application/json")>> >> }

\* request.headers: None, a dict, or a Mapping that is not a dict
HeaderCases ==
    {NoHeaders} \cup
    { Headers(kind, o \o w) :
        kind \in {"dict", "mapping"}, o \in OtherHeaderCases, w \in WindowHeaderCases }

EmptyRequest ==
    [method |-> "GET", url |-> NoUrl, params |-> NoneDict, data |-> NoneDict,
     headers |-> NoHeaders]

\* the epoch of test_rest_authenticate: 1234567890.000 s
Epoch == [sec |-> 1234567890, us |-> 0]

NoOut ==
    [phase |-> "idle", signature |-> NoSignature, timestamp |-> [hi |-> 0, lo |-> 0],
     window |-> HInt(0), message |-> "", instruction |-> "", params |-> <<>>,
     reads |-> 0, read_at |-> Epoch]

NoCanon == [phase |-> "off", params |-> NoneDict, data |-> NoneDict,
            result |-> <<>>, params_after |-> NoneDict]

NoSym == [phase |-> "off", status |-> "", permissionSets |-> <<>>, result |-> FALSE]

-----------------------------------------------------------------------------
(* The signing flow *)

Init ==
    /\ auth = NoAuth
    /\ clock = Epoch
    /\ ticks = 0
    /\ request = EmptyRequest
    /\ pre = EmptyRequest
    /\ out = NoOut
    /\ canon = NoCanon
    /\ sym = NoSym

\* BackpackAuth(api_key, secret_key, time_provider)
Construct(api_key, secret) ==
    /\ auth.status = "none"
    /\ auth' = BackpackAuth_init(api_key, secret)
    /\ UNCHANGED <<clock, ticks, request, pre, out, canon, sym>>

\* the caller builds a RESTRequest
NewRequest(method, url, pc, headers) ==
    /\ auth.status = "ok"
    /\ out.phase = "idle"
    /\ request' = [method |-> method, url |-> url, params |-> pc.params,
                   data |-> pc.data, headers |-> headers]
    /\ pre' = request'
    /\ out' = [out EXCEPT !.phase = "ready"]
    /\ UNCHANGED <<auth, clock, ticks, canon, sym>>

\* await auth.rest_authenticate(request); the time source moves on by
\* `drift` microseconds between two reads of it
RestAuthenticate(drift) ==
    /\ auth.status = "ok"
    /\ out.phase = "ready"
    /\ drift > 0 => ticks < MaxTicks
    /\ LET src    == [now |-> clock, drift |-> drift]
           signed == sign_payload(auth, request, src)
       IN  /\ request' = rest_authenticate(auth, request, src)
           /\ out' = [phase |-> "done", signature |-> signed.signature,
                      timestamp |-> signed.timestamp, window |-> signed.window,
                      message |-> signed.message, instruction |-> signed.instruction,
                      params |-> signed.params, reads |-> signed.reads,
                      read_at |-> clock]
    /\ pre' = request
    /\ clock' = AddMicros(clock, drift)
    /\ ticks' = IF drift > 0 THEN ticks + 1 ELSE ticks
    /\ UNCHANGED <<auth, canon, sym>>

\* the signed request is dispatched and discarded
Dispatch ==
    /\ out.phase = "done"
    /\ request' = EmptyRequest
    /\ pre' = EmptyRequest
    /\ out' = NoOut
    /\ UNCHANGED <<auth, clock, ticks, canon, sym>>

\* time passes
Tick ==
    /\ ticks < MaxTicks
    /\ clock' = AddMicros(clock, TickMicros)
    /\ ticks' = ticks + 1
    /\ UNCHANGED <<auth, request, pre, out, canon, sym>>

Next ==
    \/ \E k \in ApiKeys, s \in MainSecrets : Construct(k, s)
    \/ \E m \in RESTMethod, u \in UrlCases, pc \in ParamCases, h \in HeaderCases :
          NewRequest(m, u, pc, h)
    \/ \E d \in {0, TickMicros} : RestAuthenticate(d)
    \/ Dispatch
    \/ Tick

Spec == Init /\ [][Next]_vars

-----------------------------------------------------------------------------
(* Construction alone, over every bounded secret *)

\* the request of test_rest_authenticate
NewTestRequest ==
    NewRequest("GET", NoUrl, [params |-> Dict(TestParams), data |-> NoneDict], NoHeaders)

NextCtor ==
    \/ \E k \in ApiKeys, s \in CtorSecrets : Construct(k, s)
    \/ NewTestRequest
    \/ RestAuthenticate(0)

SpecCtor == Init /\ [][NextCtor]_vars

-----------------------------------------------------------------------------
(* Parameter canonicalization alone, over every bounded pair of dicts *)

CanonKeys == { <<"a">>, <<"a", "b">>, <<"Z">> }

CanonValues == { PyStr(<<"x">>), PyInt(1) }

Injective(items) ==
    \A i, j \in DOMAIN items : i # j => items[i][1] # items[j][1]

ItemsOfLen(n) == {items \in [1 .. n -> CanonKeys \X CanonValues] : Injective(items)}

\* None, and every dict of at most MaxItems items
OptDicts == {NoneDict} \cup {Dict(items) : items \in UNION {ItemsOfLen(n) : n \in 0 .. MaxItems}}

InitCanon ==
    /\ auth = NoAuth
    /\ clock = Epoch
    /\ ticks = 0
    /\ request = EmptyRequest
    /\ pre = EmptyRequest
    /\ out = NoOut
    /\ sym = NoSym
    /\ \E q \in OptDicts, b \in OptDicts :
          canon = [phase |-> "in", params |-> q, data |-> b,
                   result |-> <<>>, params_after |-> q]

\* self._get_sorted_params(request)
Canonicalize ==
    /\ canon.phase = "in"
    /\ LET got == get_sorted_params(canon.params, canon.data)
       IN  canon' = [canon EXCEPT !.phase = "out", !.result = got.result,
                                  !.params_after = got.params]
    /\ UNCHANGED <<auth, clock, ticks, request, pre, out, sym>>

NextCanon == Canonicalize

SpecCanon == InitCanon /\ [][NextCanon]_vars

-----------------------------------------------------------------------------
(* The symbol filter alone *)

Permissions == {"SPOT", "MARGIN"}

\* "" stands for a symbol information without a status
Statuses == {"TRADING", "BREAK", ""}

PermissionSetLists == UNION {[1 .. n -> SUBSET Permissions] : n \in 0 .. MaxSets}

InitSym ==
    /\ auth = NoAuth
    /\ clock = Epoch
    /\ ticks = 0
    /\ request = EmptyRequest
    /\ pre = EmptyRequest
    /\ out = NoOut
    /\ canon = NoCanon
    /\ \E st \in Statuses, ps \in PermissionSetLists :
          sym = [phase |-> "in", status |-> st, permissionSets |-> ps, result |-> FALSE]

\* utils.is_symbol_information_valid(symbol_info)
CheckSymbol ==
    /\ sym.phase = "in"
    /\ sym' = [sym EXCEPT !.phase = "out",
                          !.result = is_symbol_information_valid(
                                        [status |-> sym.status,
                                         permissionSets |-> sym.permissionSets])]
    /\ UNCHANGED <<auth, clock, ticks, request, pre, out, canon>>

NextSym == CheckSymbol

SpecSym == InitSym /\ [][NextSym]_vars

-----------------------------------------------------------------------------
(* Properties *)

AuthHeaderNames == {"X-Timestamp", "X-Window", "X-API-Key", "X-Signature"}

Done == out.phase = "done"

\* the clause of the parameters, the clause of the timestamp and window
ParamClause(params) == IF params # <<>> THEN urlencode(params) \o "&" ELSE ""

TimeClause(timestamp, window) ==
    "timestamp=" \o WideStr(timestamp) \o "&window=" \o Fmt(window)

\* the hexadecimal HMAC-SHA256 digest of a message under a UTF-8 secret
HmacSha256Hex(secret, message) ==
    [enc |-> "hex",
     sig |-> [alg |-> "HMAC-SHA256", key |-> [bytes |-> 0, seed |-> secret],
              msg |-> message]]

\* C1 (as claimed): a BackpackAuth built with the UTF-8 secret "testSecret"
\* exists, and its rest_authenticate on a request with parameters on an
\* unmapped endpoint sets X-Signature to the hex HMAC-SHA256, keyed by the
\* secret, of '<sorted params>&timestamp=<ms>&window=5000'.
C1_HmacOfSymmetricSecret ==
    /\ (auth.status # "none" /\ auth.secret = TestSecret) => auth.status = "ok"
    /\ (Done /\ out.params # <<>> /\ out.instruction = "" /\ pre.headers.kind = "none")
         => Get(request.headers.items, "X-Signature")
              = HmacSha256Hex(auth.secret,
                              urlencode(out.params) \o "&"
                                \o TimeClause(out.timestamp, HInt(DEFAULT_WINDOW)))

\* C2: after rest_authenticate the header names are the caller's names and
\* the four authentication names, each once; X-API-Key is the configured
\* identifier; every other caller header keeps its value.
C2_HeaderCompleteness ==
    Done =>
      LET new == request.headers.items
          old == pre.headers.items
      IN  /\ request.headers.kind = "dict"
          /\ Keys(new) = Keys(old) \cup AuthHeaderNames
          /\ \A i, j \in DOMAIN new : i # j => new[i][1] # new[j][1]
          /\ Get(new, "X-API-Key") = HStr(auth.api_key)
          /\ \A k \in Keys(old) \ AuthHeaderNames : Get(new, k) = Get(old, k)

\* C2 witness: a call on a non-dict mapping that carried an unrelated header
\* and a stale X-API-Key.
C2_Witness ==
    /\ Done
    /\ pre.headers.kind = "mapping"
    /\ HasKey(pre.headers.items, "Content-Type")
    /\ HasKey(pre.headers.items, "X-API-Key")
    /\ Get(pre.headers.items, "X-API-Key") # HStr(auth.api_key)

\* C3: the signed message is the instruction clause (when the tag is not
\* empty), then the parameter clause (when there are parameters), then
\* 'timestamp=<timestamp>&window=<window>'.
C3_MessageLayout ==
    Done =>
      out.message =
        (IF out.instruction # "" THEN "instruction=" \o out.instruction \o "&" ELSE "")
          \o ParamClause(out.params)
          \o TimeClause(out.timestamp, out.window)

\* C3 witness: a signed message with an instruction tag and parameters, one
\* of them escaped.
C3_Witness ==
    /\ Done
    /\ out.instruction = "withdraw"
    /\ HasKey(out.params, <<"n","o","t","e">>)

\* C4 (as claimed): rest_authenticate leaves the request's method, URL,
\* params and data as they were.
C4_OnlyHeadersChange ==
    Done =>
      /\ request.method = pre.method
      /\ request.url = pre.url
      /\ request.params = pre.params
      /\ request.data = pre.data

-----------------------------------------------------------------------------

\* a < b lexicographically, stated on positions
LexLess(a, b) ==
    \E k \in 1 .. Len(b) :
       /\ \A i \in 1 .. (k - 1) : i <= Len(a) /\ a[i] = b[i]
       /\ \/ k = Len(a) + 1
          \/ k <= Len(a) /\ Ord[a[k]] < Ord[b[k]]

ItemsOf(d) == IF d.none THEN <<>> ELSE d.items

\* the same dict with its items inserted in any other order
Reorderings(d) ==
    IF d.none THEN {d}
    ELSE { Dict([i \in DOMAIN d.items |-> d.items[f[i]]]) :
             f \in {g \in [DOMAIN d.items -> DOMAIN d.items] :
                      \A i, j \in DOMAIN d.items : i # j => g[i] # g[j]} }

\* C5: _get_sorted_params returns the union of the query and body items, the
\* body value winning on a shared key, the keys strictly ascending; inputs
\* that differ only in insertion order give the same result.
C5_CanonicalParams ==
    canon.phase = "out" =>
      LET r == canon.result
          q == ItemsOf(canon.params)
          b == ItemsOf(canon.data)
      IN  /\ Keys(r) = Keys(q) \cup Keys(b)
          /\ \A k \in Keys(b) : Get(r, k) = Get(b, k)
          /\ \A k \in Keys(q) \ Keys(b) : Get(r, k) = Get(q, k)
          /\ \A i, j \in DOMAIN r : i < j => LexLess(r[i][1], r[j][1])
          /\ \A q2 \in Reorderings(canon.params), b2 \in Reorderings(canon.data) :
                get_sorted_params(q2, b2).result = r

\* C5 witness: query and body share a key with different values, and the
\* merged items were not in ascending order.
C5_Witness ==
    /\ canon.phase = "out"
    /\ \E k \in Keys(ItemsOf(canon.params)) \cap Keys(ItemsOf(canon.data)) :
          Get(canon.params.items, k) # Get(canon.data.items, k)
    /\ Len(canon.result) >= 3
    /\ canon.result # DictUpdate(canon.params.items, canon.data.items)

-----------------------------------------------------------------------------

\* the tag the table gives a (method, path) pair, "" for a pair it lacks
TagOf(method, path) ==
    IF \E k \in DOMAIN instruction_mapping : k[1] = method /\ k[2] = path
    THEN instruction_mapping[<<method, path>>]
    ELSE ""

\* C6: the instruction is the tag of (method, path of the URL), the query
\* string apart, and "" for a pair the table lacks or a request without a
\* URL; with "" the message has no instruction clause.
C6_InstructionLookup ==
    Done =>
      /\ \A p \in Paths, q \in Queries :
            pre.url = MkUrl(p, q) => out.instruction = TagOf(pre.method, p)
      /\ pre.url = NoUrl => out.instruction = ""
      /\ out.instruction = ""
           => out.message = ParamClause(out.params) \o TimeClause(out.timestamp, out.window)

\* C6 witness: a POST to a path the table has only for GET and DELETE, with a
\* query string, signed without an instruction clause.
C6_Witness ==
    /\ Done
    /\ pre.method = "POST"
    /\ pre.url = MkUrl(API_PREFIX_V1 \o "/orders", "symbol=SOL_USDC")
    /\ out.instruction = ""

-----------------------------------------------------------------------------

CountOf(secret, cls) ==
    LET RECURSIVE Sum(_)
        Sum(runs) == IF runs = <<>> THEN 0
                     ELSE (IF Head(runs)[1] = cls THEN Head(runs)[2] ELSE 0) + Sum(Tail(runs))
    IN  Sum(secret)

\* well-formed base64: alphabet characters only, then the pads that fill the
\* last quad, and nothing else
WellFormed(secret) ==
    LET d == CountOf(secret, "d")
        p == CountOf(secret, "p")
    IN  /\ \A i \in DOMAIN secret : secret[i][1] \in {"d", "p"}
        /\ \A i, j \in DOMAIN secret :
              (secret[i][1] = "p" /\ secret[j][1] = "d") => j < i
        /\ d % 4 # 1
        /\ p = (4 - (d % 4)) % 4

\* the number of bytes a well-formed base64 string encodes
EncodedBytes(secret) ==
    LET d == CountOf(secret, "d")
    IN  3 * (d \div 4) + (IF d % 4 = 0 THEN 0 ELSE (d % 4) - 1)

\* C7 (as claimed): construction succeeds only for the well-formed base64 of
\* a 32-byte seed, and fails for every other secret.
C7_OnlyValidBase64Constructs ==
    auth.status # "none" =>
      (auth.status = "ok" <=> (WellFormed(auth.secret) /\ EncodedBytes(auth.secret) = SEED_LEN))

\* C7 (amended): a well-formed base64 secret constructs exactly when it
\* encodes 32 bytes; a secret that constructs is ASCII, has at least the 43
\* alphabet characters of 32 bytes and at least one pad, and holds a 32-byte
\* key; a failed construction leaves no key and nothing is ever signed
\* without a constructed object.
C7_ConstructionFailsFast ==
    /\ (auth.status # "none" /\ WellFormed(auth.secret))
         => (auth.status = "ok" <=> EncodedBytes(auth.secret) = SEED_LEN)
    /\ auth.status = "ok"
         => /\ CountOf(auth.secret, "u") = 0
            /\ 3 * CountOf(auth.secret, "d") >= 4 * SEED_LEN
            /\ CountOf(auth.secret, "p") >= 1
            /\ auth.key.bytes = SEED_LEN
    /\ auth.status # "ok" => (auth.key = NoKey /\ out.phase = "idle")
    /\ Done => Get(request.headers.items, "X-Signature").sig.key.bytes = SEED_LEN

\* C7 witness: a well-formed base64 secret of 31 bytes was refused.
C7_Witness ==
    /\ auth.status = "error"
    /\ WellFormed(auth.secret)
    /\ EncodedBytes(auth.secret) = SEED_LEN - 1

-----------------------------------------------------------------------------

\* C8 (as claimed): the window is the caller's X-Window value whenever the
\* request's headers hold one, whatever mapping holds them, and 5000
\* otherwise; it is the window of the message and, as a str, the X-Window
\* header.
C8_WindowFromAnyMapping ==
    Done =>
      LET window == IF HasKey(pre.headers.items, "X-Window")
                    THEN Get(pre.headers.items, "X-Window")
                    ELSE HInt(DEFAULT_WINDOW)
      IN  /\ out.window = window
          /\ out.message = (IF out.instruction # ""
                            THEN "instruction=" \o out.instruction \o "&" ELSE "")
                             \o ParamClause(out.params)
                             \o TimeClause(out.timestamp, window)
          /\ Get(request.headers.items, "X-Window") = HStr(Fmt(window))

\* C9: a call reads the time source once; the milliseconds of that read are
\* the timestamp of the signed message and the X-Timestamp header, also when
\* the time source moves on during the call.
C9_OneTimestamp ==
    Done =>
      /\ out.reads = 1
      /\ out.timestamp.hi = out.read_at.sec
      /\ 1000 * out.timestamp.lo <= out.read_at.us
      /\ out.read_at.us < 1000 * (out.timestamp.lo + 1)
      /\ Get(request.headers.items, "X-Timestamp") = HStr(WideStr(out.timestamp))
      /\ Get(request.headers.items, "X-Signature").sig.msg
           = (IF out.instruction # "" THEN "instruction=" \o out.instruction \o "&" ELSE "")
               \o ParamClause(out.params)
               \o TimeClause(out.timestamp, out.window)

\* C9 witness: the time source moved on during the call, to another
\* millisecond, and the read was not on a millisecond boundary.
C9_Witness ==
    /\ Done
    /\ Millis(clock) # Millis(out.read_at)
    /\ out.read_at.us % 1000 # 0

\* C10 (as claimed): is_symbol_information_valid is True exactly when the
\* status is "TRADING" and a permission set includes "SPOT".
C10_SymbolFilter ==
    sym.phase = "out" =>
      (sym.result <=> /\ sym.status = "TRADING"
                      /\ \E i \in DOMAIN sym.permissionSets :
                            "SPOT" \in sym.permissionSets[i])

====
